---- MODULE Spec2Model ----
(***************************************************************************)
(* Model of minivm-asm-rs: the text model (asm.rs: Asm, Label, SubLabel,   *)
(* LabelImpl), the staged builder layer (builder.rs: AsmBuilder,           *)
(* LabelBuilder, SubLabelBuilder, BuilderGuard) and the instruction        *)
(* emission protocol (builder.rs: impl_build_instruction).                 *)
(*                                                                         *)
(* Text is modelled by TLA+ strings: \o is String::push_str, Len is        *)
(* str::len and SubSeq is slicing by a byte range.  Option<T> is a         *)
(* sequence of length 0 (None) or 1 (Some).                                *)
(***************************************************************************)
EXTENDS Integers, Sequences, FiniteSets, TLC

VARIABLES
    builder,      \* the AsmBuilder: asm, main, built_main, unfinished, __id
    label_local,  \* Option: the local builder of AsmBuilder::label while its callback runs
    sub_local,    \* Option: the local builder of LabelBuilder::sub_label while its callback runs
    stack,        \* the live borrows, outermost first: guards and running callbacks
    status,       \* "building", "finished" (AsmBuilder::finish returned), "done", "panicked", or a text-model phase
    panic_msg,    \* the message of the panic, "" while none
    asm_out,      \* Option: the asm::Asm returned by AsmBuilder::finish / built through the text model
    out,          \* Option: the String returned by Asm::finish
    call,         \* history: the last API call and its arguments
    log,          \* history: what the caller wrote, per opened block, in opening order
    t_label,      \* text-model client: Option, the asm::Label under construction
    t_sub,        \* text-model client: Option, the asm::SubLabel under construction
    e_self,       \* emission client: the builder the emission functions are applied to
    e_prev,       \* emission client: the buffer of e_self before the last emission call
    live          \* session client: the builders made by direct constructor calls, with the Id each was given

vars == <<builder, label_local, sub_local, stack, status, panic_msg, asm_out, out,
          call, log, t_label, t_sub, e_self, e_prev, live>>

----------------------------------------------------------------------------
(* Bounds of the model.                                                    *)

MaxCalls == 5       \* label, sub-label and emission calls per session
MaxEmit == 1        \* emission calls of the emission client
MaxTextCalls == 6   \* Label::new, SubLabel::new, push_line and push_raw calls of the text-model client
MaxGuards == 2      \* make_guard! invocations of the session client
MaxLive == 3        \* builders the session client keeps alive at once

----------------------------------------------------------------------------
(* Helpers on text and Option.                                             *)

None == <<>>
Some(x) == <<x>>
IsSome(o) == Len(o) = 1
Unwrap(o) == o[1]
Last(s) == s[Len(s)]
Front(s) == SubSeq(s, 1, Len(s) - 1)

\* <u8 as Display>::fmt, <i64 as Display>::fmt: decimal digits, '-' for negatives
RECURSIVE u64_to_string(_)
u64_to_string(n) ==
    IF n < 10 THEN SubSeq("0123456789", n + 1, n + 1)
    ELSE u64_to_string(n \div 10) \o SubSeq("0123456789", (n % 10) + 1, (n % 10) + 1)

u8_to_string(n) == u64_to_string(n)
i64_to_string(n) == IF n < 0 THEN "-" \o u64_to_string(0 - n) ELSE u64_to_string(n)

----------------------------------------------------------------------------
(* asm.rs: the text model.                                                 *)

INDENTED_LINE_START == "\n    "
BLOCK_END == "\nend"
ENTRY_POINT == "@__entry\n    r0 <- call main\n    exit"

LabelImpl_new(buf, name_span) == [name_span |-> name_span, buf |-> buf]

\* variant of LabelImpl_name: the end of the span is ignored, the name runs to
\* the end of the buffer
LabelImpl_name_to_end(self) == SubSeq(self.buf, self.name_span.start + 1, Len(self.buf))

\* &self.buf[name_span]; a Rust range start..end is 0-based and excludes end
LabelImpl_name(self) == SubSeq(self.buf, self.name_span.start + 1, self.name_span.end)

\* variant of LabelImpl_push_raw: the text is put in front of the buffer
LabelImpl_push_raw_front(self, raw) == [self EXCEPT !.buf = raw \o @]

LabelImpl_push_raw(self, raw) == [self EXCEPT !.buf = @ \o raw]

\* variant of LabelImpl_push_line: the line is not indented
LabelImpl_push_line_no_indent(self, line) == [self EXCEPT !.buf = (@ \o "\n") \o line]

LabelImpl_push_line(self, line) == [self EXCEPT !.buf = (@ \o INDENTED_LINE_START) \o line]

LabelImpl_finish(self) == self.buf

Label_format_name(label_name) == "func " \o label_name

Label_new(name) ==
    LET start == Len("func ")
        end == start + Len(name)
    IN [inner |-> LabelImpl_new(Label_format_name(name), [start |-> start, end |-> end]),
        sub_labels |-> <<>>]

Label_push_sub_label(self, sub_label) ==
    [self EXCEPT !.sub_labels = Append(@, sub_label)]

\* variant of SubLabel_format_name: the two names are swapped
SubLabel_format_name_swapped(label_name, sub_label_name) ==
    ("@" \o sub_label_name) \o ("." \o label_name)

SubLabel_format_name(label_name, sub_label_name) ==
    ("@" \o label_name) \o ("." \o sub_label_name)

SubLabel_new(label, name) ==
    LET start == 1
        end == start + Len(label) + 1 + Len(name)
    IN [inner |-> LabelImpl_new(SubLabel_format_name(label, name), [start |-> start, end |-> end])]

\* variant of SubLabel_finish: the sub-label gets a block terminator of its own
SubLabel_finish_with_end(self) == LabelImpl_finish(self.inner) \o BLOCK_END

SubLabel_finish(self) == LabelImpl_finish(self.inner)

\* the for loop of Label::finish over sub_labels
RECURSIVE Label_finish_loop(_, _)
Label_finish_loop(buf, sub_labels) ==
    IF sub_labels = <<>> THEN buf
    ELSE Label_finish_loop((buf \o "\n") \o SubLabel_finish(Head(sub_labels)), Tail(sub_labels))

Label_finish(self) ==
    Label_finish_loop(LabelImpl_finish(self.inner), self.sub_labels) \o BLOCK_END

Asm_new == [main |-> Label_new("main"), buf |-> ENTRY_POINT]

\* variant of Asm_push_label: a single newline separates the blocks
Asm_push_label_one_newline(self, label) ==
    [self EXCEPT !.buf = (@ \o "\n") \o Label_finish(label)]

Asm_push_label(self, label) ==
    [self EXCEPT !.buf = (@ \o "\n\n") \o Label_finish(label)]

\* variant of Asm_finish: an entry label without lines and sub-labels is left out
Asm_finish_skip_empty_main(self) ==
    IF self.main = Label_new("main") THEN self.buf
    ELSE (self.buf \o "\n\n") \o Label_finish(self.main)

Asm_finish(self) == (self.buf \o "\n\n") \o Label_finish(self.main)

----------------------------------------------------------------------------
(* builder.rs: SubLabelBuilder, LabelBuilder, BuilderGuard, AsmBuilder.    *)

SubLabelBuilder_new(label, name, id) == [lbl |-> SubLabel_new(label, name), __id |-> id]

SubLabelBuilder_finish(self) == self.lbl

\* self.lbl.push_line(line): SubLabel derefs to its LabelImpl
SubLabelBuilder_write_line(self, line) ==
    [self EXCEPT !.lbl.inner = LabelImpl_push_line(@, line)]

LabelBuilder_new(name, id) == [lbl |-> Label_new(name), unfinished |-> None, __id |-> id]

\* variant of LabelBuilder_take_unfinished: the pending sub-label is pushed but
\* stays the pending one
LabelBuilder_take_unfinished_keep(self) ==
    IF IsSome(self.unfinished)
    THEN [self EXCEPT
            !.lbl = Label_push_sub_label(@, SubLabelBuilder_finish(Unwrap(self.unfinished)))]
    ELSE self

LabelBuilder_take_unfinished(self) ==
    IF IsSome(self.unfinished)
    THEN [self EXCEPT
            !.lbl = Label_push_sub_label(@, SubLabelBuilder_finish(Unwrap(self.unfinished))),
            !.unfinished = None]
    ELSE self

\* the drop_bomb::DropBomb held by a guard: armed by new, disarmed by defuse,
\* its drop panics with msg while armed ("" stands for no panic).  In the
\* messages an apostrophe stands for the backquote of the source, which a
\* TLA+ string cannot hold.
DropBomb_new(msg) == [msg |-> msg, defused |-> FALSE]
\* variant of DropBomb_defuse: the bomb stays armed
DropBomb_defuse_noop(bomb) == bomb

DropBomb_defuse(bomb) == [bomb EXCEPT !.defused = TRUE]
DropBomb_drop(bomb) == IF bomb.defused THEN "" ELSE bomb.msg

\* variant of BuilderGuard_new: the message of the bomb names the builder kind
BuilderGuard_new_names_kind(inner, id) ==
    [kind |-> "guard", inner |-> inner,
     finished |-> DropBomb_new(IF inner = "sub_unfinished"
                               THEN "sub-label builder must be marked as finished using '.finish()'"
                               ELSE "label builder must be marked as finished using '.finish()'"),
     __id |-> id]

\* inner is the place the guard borrows: "main", "unfinished" (label guards) or
\* "sub_unfinished" (sub-label guards)
BuilderGuard_new(inner, id) ==
    [kind |-> "guard", inner |-> inner,
     finished |-> DropBomb_new("builder must be marked as finished using '.finish()'"),
     __id |-> id]

\* variant of BuilderGuard_finish: the bomb is not defused
BuilderGuard_finish_no_defuse(self) == DropBomb_drop(self.finished)

\* finish(mut self): defuse, then self goes out of scope and its bomb is dropped
BuilderGuard_finish(self) == DropBomb_drop(DropBomb_defuse(self.finished))

\* the guard goes out of scope without finish
BuilderGuard_drop(self) == DropBomb_drop(self.finished)

\* a running callback f(&mut builder): inner is "main", "label_local" or "sub_local"
Callback(inner) == [kind |-> "callback", inner |-> inner]

LabelBuilder_build_sub_label(self, name) ==
    LET s1 == LabelBuilder_take_unfinished(self)
        b == SubLabelBuilder_new(LabelImpl_name(s1.lbl.inner), name, s1.__id)
    IN [self |-> [s1 EXCEPT !.unfinished = Some(b)],
        guard |-> BuilderGuard_new("sub_unfinished", s1.__id)]

\* sub_label up to the call of f: the parent and the local builder handed to f
LabelBuilder_sub_label_enter(self, name) ==
    LET s1 == LabelBuilder_take_unfinished(self)
    IN [self |-> s1,
        builder |-> SubLabelBuilder_new(LabelImpl_name(s1.lbl.inner), name, s1.__id)]

\* sub_label after f returned
LabelBuilder_sub_label_return(self, b) ==
    [self EXCEPT !.lbl = Label_push_sub_label(@, SubLabelBuilder_finish(b))]

\* variant of LabelBuilder_finish: the pending sub-label is not taken
LabelBuilder_finish_no_take(self) == self.lbl

LabelBuilder_finish(self) == LabelBuilder_take_unfinished(self).lbl

\* variant of LabelBuilder_write_line: the line goes to the pending sub-label
\* when there is one
LabelBuilder_write_line_to_pending(self, line) ==
    IF IsSome(self.unfinished)
    THEN [self EXCEPT !.unfinished[1].lbl.inner = LabelImpl_push_line(@, line)]
    ELSE [self EXCEPT !.lbl.inner = LabelImpl_push_line(@, line)]

\* self.lbl.push_line(line): Label derefs to its LabelImpl
LabelBuilder_write_line(self, line) ==
    [self EXCEPT !.lbl.inner = LabelImpl_push_line(@, line)]

\* variant of AsmBuilder_new: the entry-point builder is not given the session's id
AsmBuilder_new_unbranded_main(id) ==
    [asm |-> Asm_new, main |-> LabelBuilder_new("main", 0), built_main |-> FALSE,
     unfinished |-> None, __id |-> id]

AsmBuilder_new(id) ==
    [asm |-> Asm_new, main |-> LabelBuilder_new("main", id), built_main |-> FALSE,
     unfinished |-> None, __id |-> id]

\* variant of AsmBuilder_build_main_check: the flag is checked but never set
AsmBuilder_build_main_check_no_set(self) ==
    IF self.built_main
    THEN [msg |-> "cannot build 'main' more than once", self |-> self]
    ELSE [msg |-> "", self |-> self]

\* assert!(!self.built_main, ..); self.built_main = true   (msg "" stands for no panic)
AsmBuilder_build_main_check(self) ==
    IF self.built_main
    THEN [msg |-> "cannot build 'main' more than once", self |-> self]
    ELSE [msg |-> "", self |-> [self EXCEPT !.built_main = TRUE]]

\* variant of AsmBuilder_take_unfinished: the pending label is dropped, not pushed
AsmBuilder_take_unfinished_drop(self) == [self EXCEPT !.unfinished = None]

AsmBuilder_take_unfinished(self) ==
    IF IsSome(self.unfinished)
    THEN [self EXCEPT
            !.asm = Asm_push_label(@, LabelBuilder_finish(Unwrap(self.unfinished))),
            !.unfinished = None]
    ELSE self

AsmBuilder_build_main(self) ==
    LET r == AsmBuilder_build_main_check(self)
    IN [msg |-> r.msg, self |-> r.self, guard |-> BuilderGuard_new("main", self.__id)]

AsmBuilder_build_label(self, name) ==
    LET s1 == AsmBuilder_take_unfinished(self)
        b == LabelBuilder_new(name, s1.__id)
    IN [self |-> [s1 EXCEPT !.unfinished = Some(b)],
        guard |-> BuilderGuard_new("unfinished", s1.__id)]

\* variant of AsmBuilder_label_enter: the pending label is not taken first
AsmBuilder_label_enter_no_take(self, name) ==
    [self |-> self, builder |-> LabelBuilder_new(name, self.__id)]

\* label up to the call of f
AsmBuilder_label_enter(self, name) ==
    LET s1 == AsmBuilder_take_unfinished(self)
    IN [self |-> s1, builder |-> LabelBuilder_new(name, s1.__id)]

\* variant of AsmBuilder_label_return: the child is left pending instead of pushed
AsmBuilder_label_return_pending(self, b) == [self EXCEPT !.unfinished = Some(b)]

\* label after f returned
AsmBuilder_label_return(self, b) ==
    [self EXCEPT !.asm = Asm_push_label(@, LabelBuilder_finish(b))]

\* variant of AsmBuilder_finish: the entry label of the module is not replaced
\* by the finished entry builder
AsmBuilder_finish_keep_main(self) == AsmBuilder_take_unfinished(self).asm

AsmBuilder_finish(self) ==
    LET s1 == AsmBuilder_take_unfinished(self)
    IN [s1.asm EXCEPT !.main = LabelBuilder_finish(s1.main)]

----------------------------------------------------------------------------
(* builder.rs: impl_build_instruction, for LabelBuilder, SubLabelBuilder   *)
(* and their guards (a guard derefs to the builder it borrows).            *)

\* method resolution of self.write_line: a LabelBuilder has the field unfinished
write_line(self, line) ==
    IF "unfinished" \in DOMAIN self
    THEN LabelBuilder_write_line(self, line)
    ELSE SubLabelBuilder_write_line(self, line)

\* the loop over args: push a space, push an r, push_str(&arg.to_string())
RECURSIVE push_args(_, _)
push_args(buf, args) ==
    IF args = <<>> THEN buf
    ELSE push_args(((buf \o " ") \o "r") \o u8_to_string(Head(args)), Tail(args))

exit(self) == write_line(self, "exit")

register_move(self, from, to) ==
    write_line(self, (u8_to_string(to) \o " <- reg r") \o u8_to_string(from))

label_jump(self, label) == write_line(self, "jump " \o label)

label_call(self, label, args, to) ==
    write_line(self, push_args((("r" \o u8_to_string(to)) \o " <- call ") \o label, args))

label_address(self, label, to) ==
    write_line(self, (("r" \o u8_to_string(to)) \o " <- addr ") \o label)

dynamic_jump(self, reg) == write_line(self, "djump r" \o u8_to_string(reg))

dynamic_call(self, reg, args, to) ==
    write_line(self,
        push_args((("r" \o u8_to_string(to)) \o " <- dcall r") \o u8_to_string(reg), args))

return_(self, reg) == write_line(self, "ret r" \o u8_to_string(reg))

integer(self, value, to) ==
    write_line(self, (("r" \o u8_to_string(to)) \o " <- int ") \o i64_to_string(value))

\* format!("r{to} <- <op> r{from}")
fmt_unary(op, from, to) ==
    ((("r" \o u8_to_string(to)) \o " <- ") \o (op \o " r")) \o u8_to_string(from)

\* format!("r{to} <- <op> r{lhs} r{rhs}")
fmt_binary(op, lhs, rhs, to) ==
    (fmt_unary(op, lhs, to) \o " r") \o u8_to_string(rhs)

neg(self, from, to) == write_line(self, fmt_unary("neg", from, to))
add(self, lhs, rhs, to) == write_line(self, fmt_binary("add", lhs, rhs, to))
sub(self, lhs, rhs, to) == write_line(self, fmt_binary("sub", lhs, rhs, to))
mul(self, lhs, rhs, to) == write_line(self, fmt_binary("mul", lhs, rhs, to))
div(self, lhs, rhs, to) == write_line(self, fmt_binary("div", lhs, rhs, to))
mod_(self, lhs, rhs, to) == write_line(self, fmt_binary("mod", lhs, rhs, to))

branch_boolean(self, reg, label_true, label_false) ==
    write_line(self,
        (("bb r" \o u8_to_string(reg)) \o (" " \o label_false)) \o (" " \o label_true))

branch_equal(self, reg1, reg2, label_true, label_false) ==
    write_line(self,
        ((("beq r" \o u8_to_string(reg1)) \o (" r" \o u8_to_string(reg2)))
            \o (" " \o label_false)) \o (" " \o label_true))

\* variant of branch_less_than: the targets are written in argument order
branch_less_than_true_first(self, reg1, reg2, label_true, label_false) ==
    write_line(self,
        ((("blt r" \o u8_to_string(reg1)) \o (" r" \o u8_to_string(reg2)))
            \o (" " \o label_true)) \o (" " \o label_false))

branch_less_than(self, reg1, reg2, label_true, label_false) ==
    write_line(self,
        ((("blt r" \o u8_to_string(reg1)) \o (" r" \o u8_to_string(reg2)))
            \o (" " \o label_false)) \o (" " \o label_true))

string(self, text, to) ==
    write_line(self, (("r" \o u8_to_string(to)) \o " <- str :") \o text)

array(self, len, to) == write_line(self, fmt_unary("arr", len, to))

set_array_index(self, array_, index, value) ==
    write_line(self,
        (("set r" \o u8_to_string(array_)) \o (" r" \o u8_to_string(index)))
            \o (" r" \o u8_to_string(value)))

get_array_index(self, array_, index, to) ==
    write_line(self, fmt_binary("get", array_, index, to))

array_length(self, array_, to) == write_line(self, fmt_unary("len", array_, to))

object_type(self, object, to) == write_line(self, fmt_unary("type", object, to))

put_char(self, ch) == write_line(self, "putchar r" \o u8_to_string(ch))

\* ext.rs: BuilderExt::char, i64::from(ch)
char(self, ch, to) == integer(self, ch, to)

\* one emission call, as data: c.op names the function, the other fields its arguments
Emit(self, c) ==
    CASE c.op = "exit" -> exit(self)
      [] c.op = "register_move" -> register_move(self, c.from, c.to)
      [] c.op = "label_jump" -> label_jump(self, c.label)
      [] c.op = "label_call" -> label_call(self, c.label, c.args, c.to)
      [] c.op = "label_address" -> label_address(self, c.label, c.to)
      [] c.op = "dynamic_jump" -> dynamic_jump(self, c.reg)
      [] c.op = "dynamic_call" -> dynamic_call(self, c.reg, c.args, c.to)
      [] c.op = "return_" -> return_(self, c.reg)
      [] c.op = "integer" -> integer(self, c.value, c.to)
      [] c.op = "neg" -> neg(self, c.from, c.to)
      [] c.op = "add" -> add(self, c.lhs, c.rhs, c.to)
      [] c.op = "sub" -> sub(self, c.lhs, c.rhs, c.to)
      [] c.op = "mul" -> mul(self, c.lhs, c.rhs, c.to)
      [] c.op = "div" -> div(self, c.lhs, c.rhs, c.to)
      [] c.op = "mod_" -> mod_(self, c.lhs, c.rhs, c.to)
      [] c.op = "branch_boolean" -> branch_boolean(self, c.reg, c.label_true, c.label_false)
      [] c.op = "branch_equal" -> branch_equal(self, c.reg1, c.reg2, c.label_true, c.label_false)
      [] c.op = "branch_less_than" ->
            branch_less_than(self, c.reg1, c.reg2, c.label_true, c.label_false)
      [] c.op = "string" -> string(self, c.text, c.to)
      [] c.op = "array" -> array(self, c.len, c.to)
      [] c.op = "set_array_index" -> set_array_index(self, c.array, c.index, c.value)
      [] c.op = "get_array_index" -> get_array_index(self, c.array, c.index, c.to)
      [] c.op = "array_length" -> array_length(self, c.array, c.to)
      [] c.op = "object_type" -> object_type(self, c.object, c.to)
      [] c.op = "put_char" -> put_char(self, c.ch)
      [] c.op = "char" -> char(self, c.ch, c.to)


----------------------------------------------------------------------------
(* The builder client: one construction session on one AsmBuilder, as in   *)
(* builder.rs tests.  The borrow checker makes the live guards and running *)
(* callbacks a stack: only the innermost borrowed builder can be used.     *)

SessionId == "guard"
LabelNames == {"f", "main"}
SubNames == {"a", "b"}
BuilderCalls == {[op |-> "exit"], [op |-> "return_", reg |-> 1]}

Top == Last(stack)

\* the LabelBuilder a label-level borrow points to
LabelAt(inner) ==
    CASE inner = "main" -> builder.main
      [] inner = "unfinished" -> Unwrap(builder.unfinished)
      [] inner = "label_local" -> Unwrap(label_local)

SetLabel(inner, lb) ==
    /\ builder' = CASE inner = "main" -> [builder EXCEPT !.main = lb]
                    [] inner = "unfinished" -> [builder EXCEPT !.unfinished = Some(lb)]
                    [] inner = "label_local" -> builder
    /\ label_local' = IF inner = "label_local" THEN Some(lb) ELSE label_local

\* the SubLabelBuilder the innermost (sub-level) borrow points to
SubAt ==
    IF Top.inner = "sub_local" THEN Unwrap(sub_local)
    ELSE Unwrap(LabelAt(stack[1].inner).unfinished)

SetSub(sb) ==
    IF Top.inner = "sub_local"
    THEN /\ sub_local' = Some(sb)
         /\ UNCHANGED <<builder, label_local>>
    ELSE /\ SetLabel(stack[1].inner, [LabelAt(stack[1].inner) EXCEPT !.unfinished = Some(sb)])
         /\ UNCHANGED sub_local

AtModule == status = "building" /\ stack = <<>>
AtLabel == status = "building" /\ Len(stack) = 1
AtSub == status = "building" /\ Len(stack) = 2

\* history: the argument of the write_line call that led from before to after
WrittenLine(before, after) ==
    SubSeq(after.lbl.inner.buf,
           Len(before.lbl.inner.buf) + Len(INDENTED_LINE_START) + 1,
           Len(after.lbl.inner.buf))

EmptyLog == [main |-> [lines |-> <<>>, subs |-> <<>>], labels |-> <<>>, entry_builds |-> 0]

LogLabelOpen(name) ==
    [log EXCEPT !.labels = Append(@, [name |-> name, lines |-> <<>>, subs |-> <<>>])]

LogLabelLine(inner, line) ==
    IF inner = "main" THEN [log EXCEPT !.main.lines = Append(@, line)]
    ELSE [log EXCEPT !.labels[Len(log.labels)].lines = Append(@, line)]

LogSubOpen(inner, name) ==
    IF inner = "main"
    THEN [log EXCEPT !.main.subs = Append(@, [name |-> name, lines |-> <<>>])]
    ELSE [log EXCEPT !.labels[Len(log.labels)].subs = Append(@, [name |-> name, lines |-> <<>>])]

LogSubLine(inner, line) ==
    IF inner = "main"
    THEN [log EXCEPT !.main.subs[Len(log.main.subs)].lines = Append(@, line)]
    ELSE [log EXCEPT !.labels[Len(log.labels)].subs[Len(log.labels[Len(log.labels)].subs)].lines
                        = Append(@, line)]

RECURSIVE SumLen(_)
SumLen(ss) == IF ss = <<>> THEN 0 ELSE Len(Head(ss).lines) + SumLen(Tail(ss))

RECURSIVE SumSubs(_)
SumSubs(ls) == IF ls = <<>> THEN 0 ELSE Len(Head(ls).subs) + SumSubs(Tail(ls))

RECURSIVE SumLines(_)
SumLines(ls) ==
    IF ls = <<>> THEN 0 ELSE Len(Head(ls).lines) + SumLen(Head(ls).subs) + SumLines(Tail(ls))

NumLabels == Len(log.labels)
NumSubLabels == SumSubs(<<log.main>> \o log.labels)
NumLines == SumLines(<<log.main>> \o log.labels)
NumCalls == NumLabels + NumSubLabels + NumLines

ClientIdle ==
    /\ t_label = None /\ t_sub = None
    /\ e_self = SubLabelBuilder_new("", "", SessionId) /\ e_prev = ""
    /\ live = <<>>

Init ==
    /\ builder = AsmBuilder_new(SessionId)
    /\ label_local = None
    /\ sub_local = None
    /\ stack = <<>>
    /\ status = "building"
    /\ panic_msg = ""
    /\ asm_out = None
    /\ out = None
    /\ call = [op |-> "new"]
    /\ log = EmptyLog
    /\ ClientIdle

OtherClients == <<t_label, t_sub, e_self, e_prev, live>>

Panic(msg) ==
    /\ status' = "panicked"
    /\ panic_msg' = msg

\* AsmBuilder::build_main
BuildMain ==
    /\ AtModule
    /\ LET r == AsmBuilder_build_main(builder)
       IN IF r.msg # ""
          THEN Panic(r.msg) /\ UNCHANGED <<builder, stack>>
          ELSE /\ builder' = r.self
               /\ stack' = Append(stack, r.guard)
               /\ UNCHANGED <<status, panic_msg>>
    /\ call' = [op |-> "build_main"]
    /\ log' = [log EXCEPT !.entry_builds = @ + 1]
    /\ UNCHANGED <<label_local, sub_local, asm_out, out, OtherClients>>

\* AsmBuilder::main up to the call of f
MainEnter ==
    /\ AtModule
    /\ LET r == AsmBuilder_build_main_check(builder)
       IN IF r.msg # ""
          THEN Panic(r.msg) /\ UNCHANGED <<builder, stack>>
          ELSE /\ builder' = r.self
               /\ stack' = Append(stack, Callback("main"))
               /\ UNCHANGED <<status, panic_msg>>
    /\ call' = [op |-> "main"]
    /\ log' = [log EXCEPT !.entry_builds = @ + 1]
    /\ UNCHANGED <<label_local, sub_local, asm_out, out, OtherClients>>

\* AsmBuilder::main after f returned
MainReturn ==
    /\ AtLabel /\ Top = Callback("main")
    /\ stack' = Front(stack)
    /\ call' = [op |-> "main_return"]
    /\ UNCHANGED <<builder, label_local, sub_local, status, panic_msg, asm_out, out, log,
                   OtherClients>>

\* AsmBuilder::build_label
BuildLabel(name) ==
    /\ AtModule /\ NumCalls < MaxCalls
    /\ LET r == AsmBuilder_build_label(builder, name)
       IN /\ builder' = r.self
          /\ stack' = Append(stack, r.guard)
    /\ call' = [op |-> "build_label", name |-> name, pending |-> IsSome(builder.unfinished)]
    /\ log' = LogLabelOpen(name)
    /\ UNCHANGED <<label_local, sub_local, status, panic_msg, asm_out, out, OtherClients>>

\* AsmBuilder::label up to the call of f
LabelEnter(name) ==
    /\ AtModule /\ NumCalls < MaxCalls
    /\ LET r == AsmBuilder_label_enter(builder, name)
       IN /\ builder' = r.self
          /\ label_local' = Some(r.builder)
    /\ stack' = Append(stack, Callback("label_local"))
    /\ call' = [op |-> "label", name |-> name, pending |-> IsSome(builder.unfinished)]
    /\ log' = LogLabelOpen(name)
    /\ UNCHANGED <<sub_local, status, panic_msg, asm_out, out, OtherClients>>

\* AsmBuilder::label after f returned
LabelReturn ==
    /\ AtLabel /\ Top = Callback("label_local")
    /\ builder' = AsmBuilder_label_return(builder, Unwrap(label_local))
    /\ label_local' = None
    /\ stack' = Front(stack)
    /\ call' = [op |-> "label_return"]
    /\ UNCHANGED <<sub_local, status, panic_msg, asm_out, out, log, OtherClients>>

\* AsmBuilder::finish
Finish ==
    /\ AtModule
    /\ asm_out' = Some(AsmBuilder_finish(builder))
    /\ status' = "finished"
    /\ call' = [op |-> "finish"]
    /\ UNCHANGED <<builder, label_local, sub_local, stack, panic_msg, out, log, OtherClients>>

\* Asm::finish on the result of AsmBuilder::finish
AsmFinish ==
    /\ status = "finished"
    /\ out' = Some(Asm_finish(Unwrap(asm_out)))
    /\ status' = "done"
    /\ call' = [op |-> "asm_finish"]
    /\ UNCHANGED <<builder, label_local, sub_local, stack, panic_msg, asm_out, log, OtherClients>>

\* variant of LabelEmit: the emission call first makes the label absorb its
\* pending sub-label, as the open calls do
LabelEmit_flushes(c) ==
    /\ AtLabel /\ NumCalls < MaxCalls
    /\ LET before == LabelAt(Top.inner)
           after == Emit(LabelBuilder_take_unfinished(before), c)
       IN /\ SetLabel(Top.inner, after)
          /\ log' = LogLabelLine(Top.inner, WrittenLine(before, after))
    /\ call' = c
    /\ UNCHANGED <<sub_local, stack, status, panic_msg, asm_out, out, OtherClients>>

\* an emission function on a LabelBuilder or on its guard
LabelEmit(c) ==
    /\ AtLabel /\ NumCalls < MaxCalls
    /\ LET before == LabelAt(Top.inner)
           after == Emit(before, c)
       IN /\ SetLabel(Top.inner, after)
          /\ log' = LogLabelLine(Top.inner, WrittenLine(before, after))
    /\ call' = c
    /\ UNCHANGED <<sub_local, stack, status, panic_msg, asm_out, out, OtherClients>>

\* LabelBuilder::build_sub_label
BuildSubLabel(name) ==
    /\ AtLabel /\ NumCalls < MaxCalls
    /\ LET r == LabelBuilder_build_sub_label(LabelAt(Top.inner), name)
       IN /\ SetLabel(Top.inner, r.self)
          /\ stack' = Append(stack, r.guard)
    /\ call' = [op |-> "build_sub_label", name |-> name,
                 pending |-> IsSome(LabelAt(Top.inner).unfinished)]
    /\ log' = LogSubOpen(Top.inner, name)
    /\ UNCHANGED <<sub_local, status, panic_msg, asm_out, out, OtherClients>>

\* LabelBuilder::sub_label up to the call of f
SubLabelEnter(name) ==
    /\ AtLabel /\ NumCalls < MaxCalls
    /\ LET r == LabelBuilder_sub_label_enter(LabelAt(Top.inner), name)
       IN /\ SetLabel(Top.inner, r.self)
          /\ sub_local' = Some(r.builder)
    /\ stack' = Append(stack, Callback("sub_local"))
    /\ call' = [op |-> "sub_label", name |-> name,
                 pending |-> IsSome(LabelAt(Top.inner).unfinished)]
    /\ log' = LogSubOpen(Top.inner, name)
    /\ UNCHANGED <<status, panic_msg, asm_out, out, OtherClients>>

\* LabelBuilder::sub_label after f returned
SubLabelReturn ==
    /\ AtSub /\ Top = Callback("sub_local")
    /\ SetLabel(stack[1].inner,
                LabelBuilder_sub_label_return(LabelAt(stack[1].inner), Unwrap(sub_local)))
    /\ sub_local' = None
    /\ stack' = Front(stack)
    /\ call' = [op |-> "sub_label_return"]
    /\ UNCHANGED <<status, panic_msg, asm_out, out, log, OtherClients>>

\* an emission function on a SubLabelBuilder or on its guard
SubEmit(c) ==
    /\ AtSub /\ NumCalls < MaxCalls
    /\ LET before == SubAt
           after == Emit(before, c)
       IN /\ SetSub(after)
          /\ log' = LogSubLine(stack[1].inner, WrittenLine(before, after))
    /\ call' = c
    /\ UNCHANGED <<stack, status, panic_msg, asm_out, out, OtherClients>>

\* variant of GuardFinish: finish also makes the parent absorb the child
GuardFinish_absorbs ==
    /\ status = "building" /\ stack # <<>> /\ Top.kind = "guard"
    /\ LET msg == BuilderGuard_finish(Top)
       IN IF msg # "" THEN Panic(msg) ELSE UNCHANGED <<status, panic_msg>>
    /\ stack' = Front(stack)
    /\ call' = [op |-> "guard_finish", inner |-> Top.inner]
    /\ CASE Top.inner = "unfinished" ->
                /\ builder' = AsmBuilder_take_unfinished(builder)
                /\ UNCHANGED <<label_local, sub_local>>
         [] Top.inner = "sub_unfinished" ->
                /\ SetLabel(stack[1].inner, LabelBuilder_take_unfinished(LabelAt(stack[1].inner)))
                /\ UNCHANGED sub_local
         [] OTHER -> UNCHANGED <<builder, label_local, sub_local>>
    /\ UNCHANGED <<asm_out, out, log, OtherClients>>

\* BuilderGuard::finish on the innermost guard
GuardFinish ==
    /\ status = "building" /\ stack # <<>> /\ Top.kind = "guard"
    /\ LET msg == BuilderGuard_finish(Top)
       IN IF msg # "" THEN Panic(msg) ELSE UNCHANGED <<status, panic_msg>>
    /\ stack' = Front(stack)
    /\ call' = [op |-> "guard_finish", inner |-> Top.inner]
    /\ UNCHANGED <<builder, label_local, sub_local, asm_out, out, log, OtherClients>>

\* the innermost guard goes out of scope without a call of finish
GuardDrop ==
    /\ status = "building" /\ stack # <<>> /\ Top.kind = "guard"
    /\ LET msg == BuilderGuard_drop(Top)
       IN IF msg # "" THEN Panic(msg) ELSE UNCHANGED <<status, panic_msg>>
    /\ stack' = Front(stack)
    /\ call' = [op |-> "guard_drop", inner |-> Top.inner]
    /\ UNCHANGED <<builder, label_local, sub_local, asm_out, out, log, OtherClients>>

Next ==
    \/ BuildMain
    \/ MainEnter
    \/ MainReturn
    \/ \E name \in LabelNames : BuildLabel(name)
    \/ \E name \in LabelNames : LabelEnter(name)
    \/ LabelReturn
    \/ Finish
    \/ AsmFinish
    \/ \E c \in BuilderCalls : LabelEmit(c)
    \/ \E name \in SubNames : BuildSubLabel(name)
    \/ \E name \in SubNames : SubLabelEnter(name)
    \/ SubLabelReturn
    \/ \E c \in BuilderCalls : SubEmit(c)
    \/ GuardFinish
    \/ GuardDrop

Spec == Init /\ [][Next]_vars


----------------------------------------------------------------------------
(* The output grammar of the specification, applied to the history: what   *)
(* the final text has to be, given what the caller wrote to which block.   *)

RECURSIVE RenderLines(_)
RenderLines(lines) ==
    IF lines = <<>> THEN ""
    ELSE ("\n    " \o Head(lines)) \o RenderLines(Tail(lines))

RenderSub(parent, s) == (("@" \o parent) \o ("." \o s.name)) \o RenderLines(s.lines)

RECURSIVE RenderSubs(_, _)
RenderSubs(parent, subs) ==
    IF subs = <<>> THEN ""
    ELSE ("\n" \o RenderSub(parent, Head(subs))) \o RenderSubs(parent, Tail(subs))

RenderLabel(name, l) ==
    ((("func " \o name) \o RenderLines(l.lines)) \o RenderSubs(name, l.subs)) \o "\nend"

RECURSIVE RenderLabels(_)
RenderLabels(ls) ==
    IF ls = <<>> THEN ""
    ELSE ("\n\n" \o RenderLabel(Head(ls).name, Head(ls))) \o RenderLabels(Tail(ls))

Prologue == "@__entry\n    r0 <- call main\n    exit"

RenderModule(h) ==
    ((Prologue \o RenderLabels(h.labels)) \o "\n\n") \o RenderLabel("main", h.main)

\* the lines of a text, split at the newlines
RECURSIVE SplitLines(_, _)
SplitLines(s, cur) ==
    IF s = "" THEN <<cur>>
    ELSE IF Head(s) = "\n" THEN <<cur>> \o SplitLines(Tail(s), "")
    ELSE SplitLines(Tail(s), cur \o Head(s))

StartsWith(s, prefix) == Len(s) >= Len(prefix) /\ SubSeq(s, 1, Len(prefix)) = prefix

\* the display names of the blocks of a text, in order: a block starts at a
\* "func <name>" line or at a "@<name>" line
RECURSIVE NamesOf(_)
NamesOf(ls) ==
    IF ls = <<>> THEN <<>>
    ELSE (IF StartsWith(Head(ls), "func ") THEN <<SubSeq(Head(ls), 6, Len(Head(ls)))>>
          ELSE IF StartsWith(Head(ls), "@") THEN <<SubSeq(Head(ls), 2, Len(Head(ls)))>>
          ELSE <<>>) \o NamesOf(Tail(ls))

BlockNames(text) == NamesOf(SplitLines(text, ""))

NoDuplicates(seq) == \A i, j \in 1..Len(seq) : seq[i] = seq[j] => i = j

Count(seq, x) == Cardinality({i \in 1..Len(seq) : seq[i] = x})

RECURSIVE LoggedSubNames(_, _)
LoggedSubNames(parent, subs) ==
    IF subs = <<>> THEN <<>>
    ELSE <<(parent \o ".") \o Head(subs).name>> \o LoggedSubNames(parent, Tail(subs))

RECURSIVE LoggedNames(_)
LoggedNames(ls) ==
    IF ls = <<>> THEN <<>>
    ELSE (<<Head(ls).name>> \o LoggedSubNames(Head(ls).name, Head(ls).subs))
            \o LoggedNames(Tail(ls))

BombMsg == "builder must be marked as finished using '.finish()'"
MainTwiceMsg == "cannot build 'main' more than once"


----------------------------------------------------------------------------
(* Claims on the builder client (specification Spec).                      *)

\* the logged block of the label a label-level borrow points to
LoggedLabel(inner) ==
    IF inner = "main" THEN [name |-> "main", lines |-> log.main.lines, subs |-> log.main.subs]
    ELSE Last(log.labels)

\* the Module Builder once its pending child is finalized: Idle, the child's
\* block appended to the module text after a blank line
FinalizedModule(b) ==
    [b EXCEPT !.asm.buf = (@ \o "\n\n") \o RenderLabel(Last(log.labels).name, Last(log.labels)),
              !.unfinished = None]

\* the Label Builder once its pending child is finalized: Idle, the child's
\* text appended to the finished sub-labels
FinalizedLabel(lb, lg) ==
    [lb EXCEPT !.lbl.sub_labels =
                    Append(@, [inner |-> [name_span |-> Unwrap(lb.unfinished).lbl.inner.name_span,
                                          buf |-> RenderSub(lg.name, Last(lg.subs))]]),
               !.unfinished = None]

\* C2: opening a second child while one is pending leaves the parent as
\* finalizing the pending child (its whole block, every line once and in order,
\* placed after the earlier finished children) and then opening the new child
\* from Idle would leave it, for both parents and both styles.
C2_OpenWhilePendingIsFinalizeThenOpen ==
    [][/\ (call'.op = "build_label" /\ call'.pending) =>
            builder' = AsmBuilder_build_label(FinalizedModule(builder), call'.name).self
       /\ (call'.op = "label" /\ call'.pending) =>
            /\ builder' = AsmBuilder_label_enter(FinalizedModule(builder), call'.name).self
            /\ label_local' =
                    Some(AsmBuilder_label_enter(FinalizedModule(builder), call'.name).builder)
       /\ (call'.op = "build_sub_label" /\ call'.pending) =>
            (LabelAt(stack[1].inner))' =
                LabelBuilder_build_sub_label(
                    FinalizedLabel(LabelAt(Top.inner), LoggedLabel(Top.inner)), call'.name).self
       /\ (call'.op = "sub_label" /\ call'.pending) =>
            /\ (LabelAt(stack[1].inner))' =
                    LabelBuilder_sub_label_enter(
                        FinalizedLabel(LabelAt(Top.inner), LoggedLabel(Top.inner)),
                        call'.name).self
            /\ sub_local' =
                    Some(LabelBuilder_sub_label_enter(
                            FinalizedLabel(LabelAt(Top.inner), LoggedLabel(Top.inner)),
                            call'.name).builder)
      ]_vars

\* a second label was just opened while the first, holding a line, was pending
C2_Witness ==
    /\ call.op \in {"build_label", "label"} /\ call.pending
    /\ Len(log.labels) = 2 /\ Len(log.labels[1].lines) >= 1
    /\ builder.asm.buf = (ENTRY_POINT \o "\n\n") \o RenderLabel(log.labels[1].name, log.labels[1])

\* C3: the first entry-point build (build_main or main) succeeds and hands out
\* the entry Label Builder; any second one, in either style, panics.
C3_EntryPointOnce ==
    /\ log.entry_builds = 0 => ~builder.built_main
    /\ log.entry_builds = 1 => builder.built_main /\ panic_msg # MainTwiceMsg
    /\ (log.entry_builds = 1 /\ call.op \in {"build_main", "main"}) =>
            status = "building" /\ Len(stack) = 1 /\ Top.inner = "main"
    /\ log.entry_builds >= 2 => status = "panicked" /\ panic_msg = MainTwiceMsg

\* the second entry-point build, after a label was built in between
C3_Witness ==
    /\ log.entry_builds = 2 /\ status = "panicked" /\ call.op \in {"build_main", "main"}
    /\ Len(log.labels) >= 1

\* C4: a guard dropped without finish panics, a guard on which finish is
\* called does not; every live guard is armed.
C4_GuardMustFinish ==
    /\ call.op = "guard_drop" => status = "panicked" /\ panic_msg = BombMsg
    /\ call.op = "guard_finish" => status = "building" /\ panic_msg = ""
    /\ \A i \in 1..Len(stack) : stack[i].kind = "guard" => ~stack[i].finished.defused

\* a sub-label guard that took lines was dropped without finish
C4_Witness ==
    /\ call.op = "guard_drop" /\ call.inner = "sub_unfinished" /\ status = "panicked"
    /\ NumLines >= 1

\* C6: the final text is the rendering of everything written during the
\* session: every line once, in the block of the builder it was written to,
\* the still pending builders included.
C6_FinishAbsorbsOpenChildren ==
    status = "done" => Unwrap(out) = RenderModule(log)

\* finish met a pending label with a pending sub-label and a pending sub-label
\* of the entry label, both sub-labels holding a line
C6_Witness ==
    /\ status = "done"
    /\ IsSome(builder.unfinished)
    /\ IsSome(Unwrap(builder.unfinished).unfinished)
    /\ IsSome(builder.main.unfinished)
    /\ Len(Last(log.main.subs).lines) >= 1
    /\ Len(Last(Last(log.labels).subs).lines) >= 1

\* C10 as stated: the final text has no two blocks of one display name, and
\* exactly one block named main.
C10_UniqueNames ==
    status = "done" =>
        /\ NoDuplicates(BlockNames(Unwrap(out)))
        /\ Count(BlockNames(Unwrap(out)), "main") = 1

\* C10 amended: names are passed through unchecked; the blocks of the final
\* text are the prologue block, one block per label or sub-label call in call
\* order under the caller's name, and the entry builder's block main last.
C10_NamesPassedThrough ==
    status = "done" =>
        BlockNames(Unwrap(out)) =
            (<<"__entry">> \o LoggedNames(log.labels))
                \o (<<"main">> \o LoggedSubNames("main", log.main.subs))

\* two labels of one name and a sub-label were built
C10_Witness ==
    /\ status = "done" /\ Len(log.labels) = 2
    /\ log.labels[1].name = log.labels[2].name
    /\ NumSubLabels >= 1


----------------------------------------------------------------------------
(* The text-model client: asm.rs used directly, as in its tests.  One Asm, *)
(* at most one Label and one SubLabel under construction at a time.        *)

TextNames == {"f", "g"}
TextSubNames == {"a"}
TextLines == {"exit", "ret r1"}
TextRaws == {" r2", "\nend"}

TextInit ==
    /\ builder = AsmBuilder_new(SessionId)
    /\ label_local = None
    /\ sub_local = None
    /\ stack = <<>>
    /\ status = "text"
    /\ panic_msg = ""
    /\ asm_out = Some(Asm_new)
    /\ out = None
    /\ call = [op |-> "Asm::new"]
    /\ log = [pushed |-> <<>>, main |-> [lines |-> <<>>, raw |-> FALSE],
              cur |-> None, sub |-> None, labels |-> 0, subs |-> 0, lines |-> 0]
    /\ ClientIdle

TextFrame == <<builder, label_local, sub_local, stack, panic_msg, e_self, e_prev, live>>

\* Label::new
TLabelNew(name) ==
    /\ status = "text" /\ t_label = None /\ log.labels + log.subs + log.lines < MaxTextCalls
    /\ t_label' = Some(Label_new(name))
    /\ call' = [op |-> "Label::new", name |-> name]
    /\ log' = [log EXCEPT !.labels = @ + 1,
                          !.cur = Some([name |-> name, lines |-> <<>>, subs |-> <<>>,
                                        raw |-> FALSE])]
    /\ UNCHANGED <<TextFrame, status, asm_out, out, t_sub>>

\* push_line on the Label under construction
TLabelPushLine(line) ==
    /\ status = "text" /\ IsSome(t_label) /\ log.labels + log.subs + log.lines < MaxTextCalls
    /\ t_label' = Some([Unwrap(t_label) EXCEPT !.inner = LabelImpl_push_line(@, line)])
    /\ call' = [op |-> "Label::push_line", line |-> line]
    /\ log' = [log EXCEPT !.lines = @ + 1, !.cur[1].lines = Append(@, line)]
    /\ UNCHANGED <<TextFrame, status, asm_out, out, t_sub>>

\* push_raw on the Label under construction
TLabelPushRaw(raw) ==
    /\ status = "text" /\ IsSome(t_label) /\ log.labels + log.subs + log.lines < MaxTextCalls
    /\ t_label' = Some([Unwrap(t_label) EXCEPT !.inner = LabelImpl_push_raw(@, raw)])
    /\ call' = [op |-> "Label::push_raw", raw |-> raw]
    /\ log' = [log EXCEPT !.lines = @ + 1, !.cur[1].raw = TRUE]
    /\ UNCHANGED <<TextFrame, status, asm_out, out, t_sub>>

\* SubLabel::new(label.name(), name)
TSubLabelNew(name) ==
    /\ status = "text" /\ IsSome(t_label) /\ t_sub = None /\ log.labels + log.subs + log.lines < MaxTextCalls
    /\ t_sub' = Some(SubLabel_new(LabelImpl_name(Unwrap(t_label).inner), name))
    /\ call' = [op |-> "SubLabel::new", name |-> name]
    /\ log' = [log EXCEPT !.subs = @ + 1,
                          !.sub = Some([name |-> name, lines |-> <<>>, raw |-> FALSE])]
    /\ UNCHANGED <<TextFrame, status, asm_out, out, t_label>>

\* push_line on the SubLabel under construction
TSubLabelPushLine(line) ==
    /\ status = "text" /\ IsSome(t_sub) /\ log.labels + log.subs + log.lines < MaxTextCalls
    /\ t_sub' = Some([Unwrap(t_sub) EXCEPT !.inner = LabelImpl_push_line(@, line)])
    /\ call' = [op |-> "SubLabel::push_line", line |-> line]
    /\ log' = [log EXCEPT !.lines = @ + 1, !.sub[1].lines = Append(@, line)]
    /\ UNCHANGED <<TextFrame, status, asm_out, out, t_label>>

\* push_raw on the SubLabel under construction
TSubLabelPushRaw(raw) ==
    /\ status = "text" /\ IsSome(t_sub) /\ log.labels + log.subs + log.lines < MaxTextCalls
    /\ t_sub' = Some([Unwrap(t_sub) EXCEPT !.inner = LabelImpl_push_raw(@, raw)])
    /\ call' = [op |-> "SubLabel::push_raw", raw |-> raw]
    /\ log' = [log EXCEPT !.lines = @ + 1, !.sub[1].raw = TRUE]
    /\ UNCHANGED <<TextFrame, status, asm_out, out, t_label>>

\* Label::push_sub_label, consuming the SubLabel
TPushSubLabel ==
    /\ status = "text" /\ IsSome(t_label) /\ IsSome(t_sub)
    /\ t_label' = Some(Label_push_sub_label(Unwrap(t_label), Unwrap(t_sub)))
    /\ t_sub' = None
    /\ call' = [op |-> "Label::push_sub_label"]
    /\ log' = [log EXCEPT !.sub = None,
                          !.cur[1].subs = Append(@, [name |-> Unwrap(log.sub).name,
                                                     lines |-> Unwrap(log.sub).lines]),
                          !.cur[1].raw = @ \/ Unwrap(log.sub).raw]
    /\ UNCHANGED <<TextFrame, status, asm_out, out>>

\* SubLabel::finish, consuming the SubLabel
TSubLabelFinish ==
    /\ status = "text" /\ IsSome(t_sub)
    /\ out' = Some(SubLabel_finish(Unwrap(t_sub)))
    /\ t_sub' = None
    /\ call' = [op |-> "SubLabel::finish", parent |-> Unwrap(log.cur).name,
                log |-> Unwrap(log.sub)]
    /\ log' = [log EXCEPT !.sub = None]
    /\ UNCHANGED <<TextFrame, status, asm_out, t_label>>

\* Label::finish, consuming the Label
TLabelFinish ==
    /\ status = "text" /\ IsSome(t_label) /\ t_sub = None
    /\ out' = Some(Label_finish(Unwrap(t_label)))
    /\ t_label' = None
    /\ call' = [op |-> "Label::finish", log |-> Unwrap(log.cur)]
    /\ log' = [log EXCEPT !.cur = None]
    /\ UNCHANGED <<TextFrame, status, asm_out, t_sub>>

\* Asm::push_label, consuming the Label
TPushLabel ==
    /\ status = "text" /\ IsSome(t_label) /\ t_sub = None
    /\ asm_out' = Some(Asm_push_label(Unwrap(asm_out), Unwrap(t_label)))
    /\ t_label' = None
    /\ call' = [op |-> "Asm::push_label"]
    /\ log' = [log EXCEPT !.cur = None, !.pushed = Append(@, Label_finish(Unwrap(t_label)))]
    /\ UNCHANGED <<TextFrame, status, out, t_sub>>

\* asm.main().push_line
TMainPushLine(line) ==
    /\ status = "text" /\ log.labels + log.subs + log.lines < MaxTextCalls
    /\ asm_out' = Some([Unwrap(asm_out) EXCEPT !.main.inner = LabelImpl_push_line(@, line)])
    /\ call' = [op |-> "Asm::main().push_line", line |-> line]
    /\ log' = [log EXCEPT !.lines = @ + 1, !.main.lines = Append(@, line)]
    /\ UNCHANGED <<TextFrame, status, out, t_label, t_sub>>

\* Asm::finish
TAsmFinish ==
    /\ status = "text" /\ t_label = None /\ t_sub = None
    /\ out' = Some(Asm_finish(Unwrap(asm_out)))
    /\ status' = "text_done"
    /\ call' = [op |-> "Asm::finish"]
    /\ UNCHANGED <<TextFrame, asm_out, log, t_label, t_sub>>

TextNext ==
    \/ \E name \in TextNames : TLabelNew(name)
    \/ \E line \in TextLines : TLabelPushLine(line)
    \/ \E raw \in TextRaws : TLabelPushRaw(raw)
    \/ \E name \in TextSubNames : TSubLabelNew(name)
    \/ \E line \in TextLines : TSubLabelPushLine(line)
    \/ \E raw \in TextRaws : TSubLabelPushRaw(raw)
    \/ TPushSubLabel
    \/ TSubLabelFinish
    \/ TLabelFinish
    \/ TPushLabel
    \/ \E line \in TextLines : TMainPushLine(line)
    \/ TAsmFinish

SpecText == TextInit /\ [][TextNext]_vars

\* the blocks of a sequence of finished texts, each after a blank line
RECURSIVE JoinBlocks(_)
JoinBlocks(texts) ==
    IF texts = <<>> THEN "" ELSE ("\n\n" \o Head(texts)) \o JoinBlocks(Tail(texts))

\* C1: the finished module text is the entry prologue, then after a blank line
\* each pushed Label in push order, and after a last blank line the entry
\* label with the lines written into it.
C1_ModuleLayout ==
    status = "text_done" =>
        Unwrap(out) = ((Prologue \o JoinBlocks(log.pushed)) \o "\n\n")
                            \o RenderLabel("main", [lines |-> log.main.lines, subs |-> <<>>])

\* two labels were pushed, and a line written into the entry label after a push
C1_Witness ==
    /\ status = "text_done"
    /\ Len(log.pushed) = 2 /\ log.pushed[1] # log.pushed[2]
    /\ Len(log.main.lines) >= 1

\* C5: the text returned by Label::finish for a Label that only took lines is
\* its name line, each line in call order after a newline and four spaces, and
\* the block terminator.
C5_LabelText ==
    (call.op = "Label::finish" /\ ~call.log.raw /\ call.log.subs = <<>>) =>
        Unwrap(out) = (("func " \o call.log.name) \o RenderLines(call.log.lines)) \o "\nend"

\* a Label that took two different lines was finished
C5_Witness ==
    /\ call.op = "Label::finish" /\ ~call.log.raw /\ call.log.subs = <<>>
    /\ Len(call.log.lines) = 2 /\ call.log.lines[1] # call.log.lines[2]


----------------------------------------------------------------------------
(* The emission client: the emission functions applied to one builder, as  *)
(* in test_sub_label_builder_build.  Operands are drawn from small sets;   *)
(* a label-name token and a text literal are any &str, line breaks         *)
(* included.                                                               *)

Regs == {0, 255}
Lbls == {"f.a", "g\nh"}
Texts == {"hi", "a\nb"}
Ints == {-7, 35}
Chars == {65}
ArgLists == {<<>>, <<1>>, <<1, 20>>}

EmitCalls ==
    {[op |-> "exit"]}
    \cup {[op |-> o, from |-> a, to |-> b] : o \in {"register_move", "neg"}, a \in Regs, b \in Regs}
    \cup {[op |-> "label_jump", label |-> l] : l \in Lbls}
    \cup {[op |-> "label_call", label |-> l, args |-> as, to |-> b] :
            l \in Lbls, as \in ArgLists, b \in Regs}
    \cup {[op |-> "label_address", label |-> l, to |-> b] : l \in Lbls, b \in Regs}
    \cup {[op |-> o, reg |-> a] : o \in {"dynamic_jump", "return_"}, a \in Regs}
    \cup {[op |-> "dynamic_call", reg |-> a, args |-> as, to |-> b] :
            a \in Regs, as \in ArgLists, b \in Regs}
    \cup {[op |-> "integer", value |-> v, to |-> b] : v \in Ints, b \in Regs}
    \cup {[op |-> o, lhs |-> a, rhs |-> b, to |-> c] :
            o \in {"add", "sub", "mul", "div", "mod_"}, a \in Regs, b \in Regs, c \in Regs}
    \cup {[op |-> "branch_boolean", reg |-> a, label_true |-> t, label_false |-> f] :
            a \in Regs, t \in Lbls, f \in Lbls}
    \cup {[op |-> o, reg1 |-> a, reg2 |-> b, label_true |-> t, label_false |-> f] :
            o \in {"branch_equal", "branch_less_than"}, a \in Regs, b \in Regs,
            t \in Lbls, f \in Lbls}
    \cup {[op |-> "string", text |-> t, to |-> b] : t \in Texts, b \in Regs}
    \cup {[op |-> "array", len |-> a, to |-> b] : a \in Regs, b \in Regs}
    \cup {[op |-> "set_array_index", array |-> a, index |-> b, value |-> c] :
            a \in Regs, b \in Regs, c \in Regs}
    \cup {[op |-> "get_array_index", array |-> a, index |-> b, to |-> c] :
            a \in Regs, b \in Regs, c \in Regs}
    \cup {[op |-> "array_length", array |-> a, to |-> b] : a \in Regs, b \in Regs}
    \cup {[op |-> "object_type", object |-> a, to |-> b] : a \in Regs, b \in Regs}
    \cup {[op |-> "put_char", ch |-> a] : a \in Regs}
    \cup {[op |-> "char", ch |-> a, to |-> b] : a \in Chars, b \in Regs}

EmitOps == {c.op : c \in EmitCalls}

Buf(self) == self.lbl.inner.buf

EmitInit ==
    /\ builder = AsmBuilder_new(SessionId)
    /\ label_local = None
    /\ sub_local = None
    /\ stack = <<>>
    /\ status = "emit"
    /\ panic_msg = ""
    /\ asm_out = None
    /\ out = None
    /\ call = [op |-> "new"]
    /\ log = [emits |-> 0]
    /\ t_label = None /\ t_sub = None
    /\ e_self \in {LabelBuilder_new("f", SessionId), SubLabelBuilder_new("f", "a", SessionId)}
    /\ e_prev = Buf(e_self)
    /\ live = <<>>

\* one emission function called on e_self
EmitCall(c) ==
    /\ status = "emit" /\ log.emits < MaxEmit
    /\ e_prev' = Buf(e_self)
    /\ e_self' = Emit(e_self, c)
    /\ call' = c
    /\ log' = [log EXCEPT !.emits = @ + 1]
    /\ UNCHANGED <<builder, label_local, sub_local, stack, status, panic_msg, asm_out, out,
                   t_label, t_sub, live>>

CallsOf(op) == {c \in EmitCalls : c.op = op}

EmitNext ==
    \/ \E c \in CallsOf("exit") : EmitCall(c)
    \/ \E c \in CallsOf("register_move") : EmitCall(c)
    \/ \E c \in CallsOf("label_jump") : EmitCall(c)
    \/ \E c \in CallsOf("label_call") : EmitCall(c)
    \/ \E c \in CallsOf("label_address") : EmitCall(c)
    \/ \E c \in CallsOf("dynamic_jump") : EmitCall(c)
    \/ \E c \in CallsOf("dynamic_call") : EmitCall(c)
    \/ \E c \in CallsOf("return_") : EmitCall(c)
    \/ \E c \in CallsOf("integer") : EmitCall(c)
    \/ \E c \in CallsOf("neg") : EmitCall(c)
    \/ \E c \in CallsOf("add") : EmitCall(c)
    \/ \E c \in CallsOf("sub") : EmitCall(c)
    \/ \E c \in CallsOf("mul") : EmitCall(c)
    \/ \E c \in CallsOf("div") : EmitCall(c)
    \/ \E c \in CallsOf("mod_") : EmitCall(c)
    \/ \E c \in CallsOf("branch_boolean") : EmitCall(c)
    \/ \E c \in CallsOf("branch_equal") : EmitCall(c)
    \/ \E c \in CallsOf("branch_less_than") : EmitCall(c)
    \/ \E c \in CallsOf("string") : EmitCall(c)
    \/ \E c \in CallsOf("array") : EmitCall(c)
    \/ \E c \in CallsOf("set_array_index") : EmitCall(c)
    \/ \E c \in CallsOf("get_array_index") : EmitCall(c)
    \/ \E c \in CallsOf("array_length") : EmitCall(c)
    \/ \E c \in CallsOf("object_type") : EmitCall(c)
    \/ \E c \in CallsOf("put_char") : EmitCall(c)
    \/ \E c \in CallsOf("char") : EmitCall(c)

SpecEmit == EmitInit /\ [][EmitNext]_vars

\* a register operand as the opcode catalog writes it: r and the decimal number
R(n) == "r" \o u8_to_string(n)

\* the text the last emission call appended to the buffer
Appended == SubSeq(Buf(e_self), Len(e_prev) + 1, Len(Buf(e_self)))

HasNewline(s) == Len(SplitLines(s, "")) > 1

\* the label-name and text operands of an emission call
TextOperands(c) ==
    {c[f] : f \in DOMAIN c \cap {"label", "label_true", "label_false", "text"}}

\* C7: the three branch functions take the true target before the false
\* target and write the false target before the true target.
C7_BranchFalseBeforeTrue ==
    /\ call.op = "branch_boolean" =>
        Buf(e_self) = (e_prev \o "\n    ")
            \o ((("bb " \o R(call.reg)) \o (" " \o call.label_false)) \o (" " \o call.label_true))
    /\ call.op = "branch_equal" =>
        Buf(e_self) = (e_prev \o "\n    ")
            \o (((("beq " \o R(call.reg1)) \o (" " \o R(call.reg2)))
                    \o (" " \o call.label_false)) \o (" " \o call.label_true))
    /\ call.op = "branch_less_than" =>
        Buf(e_self) = (e_prev \o "\n    ")
            \o (((("blt " \o R(call.reg1)) \o (" " \o R(call.reg2)))
                    \o (" " \o call.label_false)) \o (" " \o call.label_true))

\* a branch was emitted with two different targets and two different registers
C7_Witness ==
    /\ call.op = "branch_less_than"
    /\ call.label_true # call.label_false /\ call.reg1 # call.reg2

\* C8: register_move(from, to) appends the catalog's RegisterMove form,
\* r<to> <- reg r<from>.
C8_RegisterMoveForm ==
    call.op = "register_move" =>
        Buf(e_self) = (e_prev \o "\n    ")
            \o ((R(call.to) \o " <- reg ") \o R(call.from))

\* C9 as stated: after every emission call the buffer holds exactly one more
\* newline-separated line than before, and that line is indented by four spaces.
C9_OneMoreLine ==
    call.op \in EmitOps =>
        /\ Len(SplitLines(Buf(e_self), "")) = Len(SplitLines(e_prev, "")) + 1
        /\ StartsWith(Last(SplitLines(Buf(e_self), "")), "    ")

\* C9 amended: every emission call appends one push_line unit, a newline, four
\* spaces and the formatted content, after what the buffer held; the buffer
\* holds exactly one more line, indented by four spaces, whenever no label-name
\* or text operand holds a line break.
C9_OneLineUnlessNewlineOperand ==
    call.op \in EmitOps =>
        /\ StartsWith(Buf(e_self), e_prev \o "\n    ")
        /\ Len(Appended) > Len("\n    ")
        /\ (\A t \in TextOperands(call) : ~HasNewline(t)) =>
                /\ Len(SplitLines(Appended, "")) = 2
                /\ Len(SplitLines(Buf(e_self), "")) = Len(SplitLines(e_prev, "")) + 1
                /\ StartsWith(Last(SplitLines(Buf(e_self), "")), "    ")

\* a text literal without a line break was emitted
C9_Witness ==
    /\ call.op = "string" /\ ~HasNewline(call.text)
    /\ Len(SplitLines(Buf(e_self), "")) = 2


----------------------------------------------------------------------------
(* The diagnostic of a discarded guard.                                    *)

\* a place borrowed by a guard of the other alias: LabelBuilderGuard borrows
\* "main" or "unfinished", SubLabelBuilderGuard borrows "sub_unfinished"
OtherGuardKind(inner) == IF inner = "sub_unfinished" THEN "unfinished" ELSE "sub_unfinished"

\* what a discarded, armed guard of the other kind reports in the same session
OtherKindDiagnostic == BuilderGuard_drop(BuilderGuard_new(OtherGuardKind(call.inner), builder.__id))

----------------------------------------------------------------------------
(* The session client: a caller of the public constructors.                *)
(* AsmBuilder::new and LabelBuilder::new are pub and take an Id by value.  *)
(* Id is Copy: new passes id to LabelBuilder::new and then stores it       *)
(* (builder.rs lines 24 and 27), and build_label reads self.__id by value  *)
(* out of a borrowed self, so one Id can be handed to any number of calls. *)
(* make_guard! yields an Id that no other invocation of it yields: the     *)
(* model numbers the invocations.                                          *)

SessionNames == {"f"}

SessionInit ==
    /\ builder = AsmBuilder_new(SessionId)
    /\ label_local = None
    /\ sub_local = None
    /\ stack = <<>>
    /\ status = "session"
    /\ panic_msg = ""
    /\ asm_out = None
    /\ out = None
    /\ call = [op |-> "start"]
    /\ log = [guards |-> 0]
    /\ t_label = None /\ t_sub = None
    /\ e_self = SubLabelBuilder_new("", "", SessionId) /\ e_prev = ""
    /\ live = <<>>

SessionFrame == <<builder, label_local, sub_local, stack, status, panic_msg, asm_out, out,
                  t_label, t_sub, e_self, e_prev>>

\* the Ids the caller holds: one per make_guard! invocation so far
HeldIds == 1 .. log.guards

\* generativity::make_guard!(guard); guard.into()
MakeGuard ==
    /\ status = "session" /\ log.guards < MaxGuards
    /\ log' = [log EXCEPT !.guards = @ + 1]
    /\ call' = [op |-> "make_guard", id |-> log.guards + 1]
    /\ UNCHANGED <<SessionFrame, live>>

\* AsmBuilder::new(id) with an Id the caller holds
SessionAsmBuilderNew(id) ==
    /\ status = "session" /\ Len(live) < MaxLive
    /\ live' = Append(live, [id |-> id, type |-> "AsmBuilder", value |-> AsmBuilder_new(id)])
    /\ call' = [op |-> "AsmBuilder::new", id |-> id]
    /\ UNCHANGED <<SessionFrame, log>>

\* LabelBuilder::new(name, id) with an Id the caller holds: a Label Builder
\* that no Module Builder owns
SessionLabelBuilderNew(name, id) ==
    /\ status = "session" /\ Len(live) < MaxLive
    /\ live' = Append(live, [id |-> id, type |-> "LabelBuilder", value |-> LabelBuilder_new(name, id)])
    /\ call' = [op |-> "LabelBuilder::new", name |-> name, id |-> id]
    /\ UNCHANGED <<SessionFrame, log>>

\* the i-th live builder goes out of scope
SessionDrop(i) ==
    /\ status = "session"
    /\ live' = SubSeq(live, 1, i - 1) \o SubSeq(live, i + 1, Len(live))
    /\ call' = [op |-> "drop", type |-> live[i].type]
    /\ UNCHANGED <<SessionFrame, log>>

SessionNext ==
    \/ MakeGuard
    \/ \E id \in HeldIds : SessionAsmBuilderNew(id)
    \/ \E name \in SessionNames, id \in HeldIds : SessionLabelBuilderNew(name, id)
    \/ \E i \in 1 .. Len(live) : SessionDrop(i)

SpecSession == SessionInit /\ [][SessionNext]_vars

----------------------------------------------------------------------------
(* The parent of a child whose guard was finished.                         *)

\* the module text holding the prologue and the first k logged labels
AbsorbedLabels(k) == Prologue \o RenderLabels(SubSeq(log.labels, 1, k))

\* C13 as stated: right after finish on the guard of a pending child the
\* parent is Idle: it holds no pending child and the child is among its
\* finished children
C13_GuardFinishMakesParentIdle ==
    /\ (call.op = "guard_finish" /\ call.inner = "unfinished") =>
            /\ builder.unfinished = None
            /\ builder.asm.buf = AbsorbedLabels(Len(log.labels))
    /\ (call.op = "guard_finish" /\ call.inner = "sub_unfinished") =>
            /\ LabelAt(Top.inner).unfinished = None
            /\ Len(LabelAt(Top.inner).lbl.sub_labels) = Len(LoggedLabel(Top.inner).subs)

\* C13: finish on the guard of a pending child only disarms the guard: right
\* after it the parent still holds the child as its pending child, with all
\* that was written to it, and the finished children are the earlier ones
C13_GuardFinishOnlyDisarms ==
    /\ (call.op = "guard_finish" /\ call.inner = "unfinished") =>
            /\ status = "building"
            /\ IsSome(builder.unfinished)
            /\ builder.asm.buf = AbsorbedLabels(Len(log.labels) - 1)
            /\ LabelBuilder_finish(Unwrap(builder.unfinished)).inner.buf =
                    ("func " \o Last(log.labels).name) \o RenderLines(Last(log.labels).lines)
    /\ (call.op = "guard_finish" /\ call.inner = "sub_unfinished") =>
            /\ status = "building"
            /\ IsSome(LabelAt(Top.inner).unfinished)
            /\ Len(LabelAt(Top.inner).lbl.sub_labels) = Len(LoggedLabel(Top.inner).subs) - 1
            /\ Unwrap(LabelAt(Top.inner).unfinished).lbl.inner.buf =
                    RenderSub(LoggedLabel(Top.inner).name, Last(LoggedLabel(Top.inner).subs))

\* finish was called on the guard of a label that holds a line and a sub-label
C13_Witness ==
    /\ call.op = "guard_finish" /\ call.inner = "unfinished"
    /\ Len(Last(log.labels).lines) >= 1
    /\ Len(Last(log.labels).subs) >= 1

\* C14: when label or sub_label returns, the child built by the callback is
\* the last of the parent's finished children, with all that was written to
\* it, and the parent holds no pending child
C14_CallbackReturnsAbsorbed ==
    /\ call.op = "label_return" =>
            /\ status = "building"
            /\ builder.unfinished = None /\ label_local = None
            /\ builder.asm.buf = AbsorbedLabels(Len(log.labels))
    /\ call.op = "sub_label_return" =>
            /\ status = "building"
            /\ LabelAt(Top.inner).unfinished = None /\ sub_local = None
            /\ Len(LabelAt(Top.inner).lbl.sub_labels) = Len(LoggedLabel(Top.inner).subs)
            /\ Last(LabelAt(Top.inner).lbl.sub_labels).inner.buf =
                    RenderSub(LoggedLabel(Top.inner).name, Last(LoggedLabel(Top.inner).subs))

\* label returned from a callback that wrote a line and opened a sub-label,
\* after an earlier label
C14_Witness ==
    /\ call.op = "label_return"
    /\ Len(log.labels) = 2
    /\ Len(Last(log.labels).lines) >= 1
    /\ Len(Last(log.labels).subs) >= 1

\* the entry point was built a second time by the last call
SecondEntryBuild == call.op \in {"build_main", "main"} /\ log.entry_builds >= 2

\* C15: a session panics only by a second entry-point build or by a guard
\* dropped without finish; after any other call it goes on, AsmBuilder::finish
\* returns a module and Asm::finish returns its text
C15_OnlyTwoFatalConditions ==
    /\ status = "panicked" =>
            \/ SecondEntryBuild /\ panic_msg = MainTwiceMsg
            \/ call.op = "guard_drop" /\ panic_msg = BombMsg
    /\ (~SecondEntryBuild /\ call.op # "guard_drop") =>
            status \in {"building", "finished", "done"} /\ panic_msg = ""
    /\ call.op = "finish" => status = "finished" /\ IsSome(asm_out)
    /\ call.op = "asm_finish" => status = "done" /\ IsSome(out) /\ Len(Unwrap(out)) > 0

\* a session with the entry point built once, a label, a sub-label and a line
\* ran to its final text
C15_Witness ==
    /\ status = "done" /\ call.op = "asm_finish"
    /\ log.entry_builds = 1
    /\ Len(log.labels) >= 1 /\ NumSubLabels >= 1 /\ NumLines >= 1
    /\ IsSome(out)

----------------------------------------------------------------------------
(* Names of the text model.                                                *)

\* C16: whatever was pushed since its construction, name() of the Label under
\* construction is the name given to Label::new, name() of the SubLabel under
\* construction is the label's name, a dot and the name given to
\* SubLabel::new, and name() of the entry label is main
C16_NameIsImmutable ==
    status \in {"text", "text_done"} =>
        /\ IsSome(t_label) => LabelImpl_name(Unwrap(t_label).inner) = Unwrap(log.cur).name
        /\ IsSome(t_sub) =>
                LabelImpl_name(Unwrap(t_sub).inner) =
                    (Unwrap(log.cur).name \o ".") \o Unwrap(log.sub).name
        /\ LabelImpl_name(Unwrap(asm_out).main.inner) = "main"

\* a Label took a line, raw text and a sub-label, and a further SubLabel was
\* made from its name and took raw text
C16_Witness ==
    /\ IsSome(t_label) /\ IsSome(t_sub)
    /\ call.op = "SubLabel::push_raw"
    /\ Unwrap(log.cur).raw
    /\ Len(Unwrap(log.cur).lines) >= 1
    /\ Len(Unwrap(log.cur).subs) >= 1

----------------------------------------------------------------------------
(* Names of the sub-labels opened through a Label Builder.                 *)

\* the logged blocks of the session, the entry label first
LoggedBlocks == <<LoggedLabel("main")>> \o log.labels

\* the set of the lines of a text
LinesOf(text) == LET ls == SplitLines(text, "") IN {ls[k] : k \in 1 .. Len(ls)}

\* C17: the Sub-Label Builder opened with suffix s from the Label Builder of
\* label n has the name n.s, whatever lines the label took before, and the
\* final text has the header line @n.s for every sub-label that was opened
C17_SubLabelNamedAfterParent ==
    /\ AtSub =>
            /\ LabelImpl_name(SubAt.lbl.inner) =
                    (LoggedLabel(stack[1].inner).name \o ".")
                        \o Last(LoggedLabel(stack[1].inner).subs).name
            /\ StartsWith(SubAt.lbl.inner.buf,
                          ("@" \o LoggedLabel(stack[1].inner).name)
                              \o ("." \o Last(LoggedLabel(stack[1].inner).subs).name))
    /\ status = "done" =>
            LET lines == LinesOf(Unwrap(out))
            IN \A i \in 1 .. Len(LoggedBlocks) :
                    \A j \in 1 .. Len(LoggedBlocks[i].subs) :
                        (("@" \o LoggedBlocks[i].name) \o ("." \o LoggedBlocks[i].subs[j].name))
                            \in lines

\* a sub-label was just opened from a label that had taken a line and an
\* earlier sub-label
C17_Witness ==
    /\ AtSub /\ call.op \in {"build_sub_label", "sub_label"}
    /\ stack[1].inner # "main"
    /\ Len(LoggedLabel(stack[1].inner).lines) >= 1
    /\ Len(LoggedLabel(stack[1].inner).subs) = 2

----------------------------------------------------------------------------
(* The text model used directly on what a session wrote: the same Labels   *)
(* and SubLabels constructed with asm.rs, the same lines pushed, the       *)
(* blocks pushed in opening order (as test_asm_to_string does by hand).    *)

RECURSIVE DirectLines(_, _)
DirectLines(inner, lines) ==
    IF lines = <<>> THEN inner
    ELSE DirectLines(LabelImpl_push_line(inner, Head(lines)), Tail(lines))

\* SubLabel::new(label.name(), name) and a push_line per line
DirectSubLabel(label, s) ==
    [SubLabel_new(LabelImpl_name(label.inner), s.name) EXCEPT !.inner = DirectLines(@, s.lines)]

RECURSIVE DirectSubLabels(_, _)
DirectSubLabels(label, subs) ==
    IF subs = <<>> THEN label
    ELSE DirectSubLabels(Label_push_sub_label(label, DirectSubLabel(label, Head(subs))),
                         Tail(subs))

\* a push_line per line on the Label, then a push_sub_label per sub-label
DirectLabel(label, l) ==
    DirectSubLabels([label EXCEPT !.inner = DirectLines(@, l.lines)], l.subs)

RECURSIVE DirectLabels(_, _)
DirectLabels(asm, ls) ==
    IF ls = <<>> THEN asm
    ELSE DirectLabels(Asm_push_label(asm, DirectLabel(Label_new(Head(ls).name), Head(ls))),
                      Tail(ls))

\* Asm::new, the entry label filled through Asm::main, then a push_label per label
DirectModule(h) ==
    DirectLabels([Asm_new EXCEPT !.main = DirectLabel(@, h.main)], h.labels)

\* a chain of emission calls on one builder
RECURSIVE EmitAll(_, _)
EmitAll(self, calls) ==
    IF calls = <<>> THEN self ELSE EmitAll(Emit(self, Head(calls)), Tail(calls))

\* sub_label(name, f) with f a chain of emission calls
SubLabelWith(self, name, calls) ==
    LET e == LabelBuilder_sub_label_enter(self, name)
    IN LabelBuilder_sub_label_return(e.self, EmitAll(e.builder, calls))

\* the Fibonacci program of test_asm_builder_build: the emission calls of
\* each callback or guard, call by call
FibProgram ==
    [main |->
        <<[op |-> "integer", value |-> 35, to |-> 0],
          [op |-> "label_call", label |-> "fib", args |-> <<0>>, to |-> 0],
          [op |-> "label_call", label |-> "putn", args |-> <<0>>, to |-> 0],
          [op |-> "integer", value |-> 10, to |-> 0],
          [op |-> "put_char", ch |-> 0],
          [op |-> "exit"]>>,
     fib |->
        <<[op |-> "integer", value |-> 2, to |-> 0],
          [op |-> "branch_less_than", reg1 |-> 1, reg2 |-> 0,
          label_true |-> "fib.then", label_false |-> "fib.else"]>>,
     fib_then |->
        <<[op |-> "return_", reg |-> 1]>>,
     fib_else |->
        <<[op |-> "integer", value |-> 1, to |-> 0],
          [op |-> "sub", lhs |-> 1, rhs |-> 0, to |-> 1],
          [op |-> "sub", lhs |-> 1, rhs |-> 0, to |-> 0],
          [op |-> "label_call", label |-> "fib", args |-> <<1>>, to |-> 1],
          [op |-> "label_call", label |-> "fib", args |-> <<0>>, to |-> 0],
          [op |-> "add", lhs |-> 0, rhs |-> 1, to |-> 0],
          [op |-> "return_", reg |-> 0]>>,
     putn |->
        <<[op |-> "branch_boolean", reg |-> 1,
          label_true |-> "putn.digit", label_false |-> "putn.ret"]>>,
     putn_digit |->
        <<[op |-> "integer", value |-> 10, to |-> 0],
          [op |-> "div", lhs |-> 1, rhs |-> 0, to |-> 0],
          [op |-> "label_call", label |-> "putn", args |-> <<0>>, to |-> 0],
          [op |-> "integer", value |-> 10, to |-> 0],
          [op |-> "mod_", lhs |-> 1, rhs |-> 0, to |-> 1],
          [op |-> "integer", value |-> 48, to |-> 0],
          [op |-> "add", lhs |-> 1, rhs |-> 0, to |-> 1],
          [op |-> "put_char", ch |-> 1]>>,
     putn_ret |->
        <<[op |-> "integer", value |-> 0, to |-> 0],
          [op |-> "return_", reg |-> 0]>>]

\* test_asm_builder_build up to builder.finish().finish(): main by callback,
\* fib by callback, putn by guard, every sub-label by callback
FibBuilderText ==
    LET b0 == AsmBuilder_new(SessionId)
        b1 == [AsmBuilder_build_main_check(b0).self EXCEPT !.main = EmitAll(@, FibProgram.main)]
        fib == AsmBuilder_label_enter(b1, "fib")
        fib1 == EmitAll(fib.builder, FibProgram.fib)
        fib2 == SubLabelWith(fib1, "then", FibProgram.fib_then)
        fib3 == SubLabelWith(fib2, "else", FibProgram.fib_else)
        b2 == AsmBuilder_label_return(fib.self, fib3)
        putn == AsmBuilder_build_label(b2, "putn")
        putn1 == EmitAll(Unwrap(putn.self.unfinished), FibProgram.putn)
        putn2 == SubLabelWith(putn1, "digit", FibProgram.putn_digit)
        putn3 == SubLabelWith(putn2, "ret", FibProgram.putn_ret)
        b3 == [putn.self EXCEPT !.unfinished = Some(putn3)]
    IN IF BuilderGuard_finish(putn.guard) # "" THEN BuilderGuard_finish(putn.guard)
       ELSE Asm_finish(AsmBuilder_finish(b3))

\* the lines test_asm_to_string pushes, block by block
FibLines ==
    [main |-> [lines |-> <<"r0 <- int 35", "r0 <- call fib r0", "r0 <- call putn r0",
                           "r0 <- int 10", "putchar r0", "exit">>,
               subs |-> <<>>],
     labels |->
        <<[name |-> "fib",
           lines |-> <<"r0 <- int 2", "blt r1 r0 fib.else fib.then">>,
           subs |-> <<[name |-> "then", lines |-> <<"ret r1">>],
                      [name |-> "else",
                       lines |-> <<"r0 <- int 1", "r1 <- sub r1 r0", "r0 <- sub r1 r0",
                                   "r1 <- call fib r1", "r0 <- call fib r0",
                                   "r0 <- add r0 r1", "ret r0">>]>>],
          [name |-> "putn",
           lines |-> <<"bb r1 putn.ret putn.digit">>,
           subs |-> <<[name |-> "digit",
                       lines |-> <<"r0 <- int 10", "r0 <- div r1 r0", "r0 <- call putn r0",
                                   "r0 <- int 10", "r1 <- mod r1 r0", "r0 <- int 48",
                                   "r1 <- add r1 r0", "putchar r1">>],
                      [name |-> "ret", lines |-> <<"r0 <- int 0", "ret r0">>]>>]>>]

\* test_asm_to_string up to asm.finish()
FibDirectText == Asm_finish(DirectModule(FibLines))

\* the text both Fibonacci tests expect (builder.rs lines 503-545, asm.rs lines 328-370)
FibExpected ==
    "@__entry\n" \o
    "    r0 <- call main\n" \o
    "    exit\n" \o
    "\n" \o
    "func fib\n" \o
    "    r0 <- int 2\n" \o
    "    blt r1 r0 fib.else fib.then\n" \o
    "@fib.then\n" \o
    "    ret r1\n" \o
    "@fib.else\n" \o
    "    r0 <- int 1\n" \o
    "    r1 <- sub r1 r0\n" \o
    "    r0 <- sub r1 r0\n" \o
    "    r1 <- call fib r1\n" \o
    "    r0 <- call fib r0\n" \o
    "    r0 <- add r0 r1\n" \o
    "    ret r0\n" \o
    "end\n" \o
    "\n" \o
    "func putn\n" \o
    "    bb r1 putn.ret putn.digit\n" \o
    "@putn.digit\n" \o
    "    r0 <- int 10\n" \o
    "    r0 <- div r1 r0\n" \o
    "    r0 <- call putn r0\n" \o
    "    r0 <- int 10\n" \o
    "    r1 <- mod r1 r0\n" \o
    "    r0 <- int 48\n" \o
    "    r1 <- add r1 r0\n" \o
    "    putchar r1\n" \o
    "@putn.ret\n" \o
    "    r0 <- int 0\n" \o
    "    ret r0\n" \o
    "end\n" \o
    "\n" \o
    "func main\n" \o
    "    r0 <- int 35\n" \o
    "    r0 <- call fib r0\n" \o
    "    r0 <- call putn r0\n" \o
    "    r0 <- int 10\n" \o
    "    putchar r0\n" \o
    "    exit\n" \o
    "end"

\* C18: the final text of a session is the text the text model gives when the
\* same labels and sub-labels are constructed directly, the lines the session
\* wrote are pushed to them and the blocks are pushed in opening order; the
\* Fibonacci program gives the expected text on both paths
C18_BuilderRefinesTextModel ==
    /\ status = "done" => Unwrap(out) = Asm_finish(DirectModule(log))
    /\ FibBuilderText = FibDirectText
    /\ FibBuilderText = FibExpected

\* a session with a line in the entry label and two labels, one with a
\* sub-label that holds a line, ran to its final text
C18_Witness ==
    /\ status = "done"
    /\ Len(log.main.lines) >= 1
    /\ Len(log.labels) = 2
    /\ \E i \in 1 .. 2 :
            /\ Len(log.labels[i].subs) >= 1
            /\ Len(log.labels[i].subs[1].lines) >= 1

----------------------------------------------------------------------------
(* The two styles of building one child, from the same parent.             *)

\* the chains of emission calls a child is filled with
StyleBodies == {<<>>, <<[op |-> "return_", reg |-> 1], [op |-> "exit"]>>}

\* let mut g = b.build_label(n); g.<calls>; g.finish();
GuardStyleLabel(b, n, calls) ==
    LET g == AsmBuilder_build_label(b, n)
    IN [g.self EXCEPT !.unfinished = Some(EmitAll(Unwrap(@), calls))]

\* b.label(n, |l| { l.<calls>; });
CallbackStyleLabel(b, n, calls) ==
    LET e == AsmBuilder_label_enter(b, n)
    IN AsmBuilder_label_return(e.self, EmitAll(e.builder, calls))

\* let mut g = lb.build_sub_label(n); g.<calls>; g.finish();
GuardStyleSubLabel(lb, n, calls) ==
    LET g == LabelBuilder_build_sub_label(lb, n)
    IN [g.self EXCEPT !.unfinished = Some(EmitAll(Unwrap(@), calls))]

\* lb.sub_label(n, |s| { s.<calls>; });
CallbackStyleSubLabel(lb, n, calls) == SubLabelWith(lb, n, calls)

\* C19: from every state of a session in which a child can be opened, building
\* the child n with the calls L by callback and building it by guard and
\* finish give the same parent once the parent next opens a child or is
\* finished, hence the same final text
C19_StylesAgree ==
    /\ AtModule =>
            \A n \in LabelNames, calls \in StyleBodies :
                LET g == GuardStyleLabel(builder, n, calls)
                    c == CallbackStyleLabel(builder, n, calls)
                IN /\ AsmBuilder_take_unfinished(g) = c
                   /\ Asm_finish(AsmBuilder_finish(g)) = Asm_finish(AsmBuilder_finish(c))
    /\ AtLabel =>
            \A n \in SubNames, calls \in StyleBodies :
                LET g == GuardStyleSubLabel(LabelAt(Top.inner), n, calls)
                    c == CallbackStyleSubLabel(LabelAt(Top.inner), n, calls)
                IN /\ LabelBuilder_take_unfinished(g) = c
                   /\ Label_finish(LabelBuilder_finish(g)) = Label_finish(LabelBuilder_finish(c))

\* a position inside a sequence: a label built by callback is finished and a
\* label built by guard, holding a line and a sub-label, is pending
C19_Witness ==
    /\ AtModule /\ call.op = "guard_finish" /\ call.inner = "unfinished"
    /\ IsSome(builder.unfinished)
    /\ Len(log.labels) = 2
    /\ Len(Last(log.labels).lines) >= 1
    /\ Len(Last(log.labels).subs) >= 1

----------------------------------------------------------------------------
(* Pending and finished children of every parent.                          *)

\* the sub-label callback that runs on a child of the label builder at inner
LocalSubOf(inner) ==
    IF Len(stack) = 2 /\ stack[1].inner = inner /\ stack[2].inner = "sub_local"
    THEN sub_local ELSE None

\* the Label Builder lb, whose logged block is lg, holds at most one pending
\* sub-label, and its finished sub-labels are the other logged ones, each once
\* and in opening order
SubLabelsOnce(lb, lg, local) ==
    /\ Len(lb.unfinished) <= 1
    /\ Len(lb.unfinished) + Len(local) <= 1
    /\ Len(lb.lbl.sub_labels) = Len(lg.subs) - Len(lb.unfinished) - Len(local)
    /\ \A j \in 1 .. Len(lb.lbl.sub_labels) :
            lb.lbl.sub_labels[j].inner.buf = RenderSub(lg.name, lg.subs[j])

\* C20: every parent holds at most one pending child, and its finished
\* children are exactly the children opened before the pending one, each
\* absorbed once and in opening order
C20_OnePendingAbsorbedOnce ==
    /\ Len(builder.unfinished) <= 1 /\ Len(label_local) <= 1 /\ Len(sub_local) <= 1
    /\ Len(builder.unfinished) + Len(label_local) <= 1
    /\ builder.asm.buf =
            AbsorbedLabels(Len(log.labels) - Len(builder.unfinished) - Len(label_local))
    /\ SubLabelsOnce(builder.main, LoggedLabel("main"), LocalSubOf("main"))
    /\ IsSome(builder.unfinished) =>
            SubLabelsOnce(Unwrap(builder.unfinished), Last(log.labels), LocalSubOf("unfinished"))
    /\ IsSome(label_local) =>
            SubLabelsOnce(Unwrap(label_local), Last(log.labels), LocalSubOf("label_local"))
    /\ status \in {"finished", "done"} =>
            /\ Unwrap(asm_out).buf = AbsorbedLabels(Len(log.labels))
            /\ Len(Unwrap(asm_out).main.sub_labels) = Len(log.main.subs)

\* a label holds a finished sub-label and a pending one while an earlier label
\* is absorbed
C20_Witness ==
    /\ status = "building"
    /\ Len(log.labels) = 2
    /\ IsSome(builder.unfinished)
    /\ IsSome(Unwrap(builder.unfinished).unfinished)
    /\ Len(Unwrap(builder.unfinished).lbl.sub_labels) = 1

----------------------------------------------------------------------------
(* The text of a Label that holds sub-labels.                              *)

\* C21: the text returned by Label::finish for a Label with sub-labels that
\* only took lines is its name line and own lines, then on a new line each
\* pushed SubLabel in push order, its header @label.sub and its indented lines
\* without a terminator, and one terminator line after the last sub-label;
\* SubLabel::finish returns the header and the lines, without a terminator
C21_LabelWithSubLabelsText ==
    /\ (call.op = "Label::finish" /\ ~call.log.raw /\ call.log.subs # <<>>) =>
            LET ls == SplitLines(Unwrap(out), "")
            IN /\ Unwrap(out) =
                    ((("func " \o call.log.name) \o RenderLines(call.log.lines))
                        \o RenderSubs(call.log.name, call.log.subs)) \o "\nend"
               /\ Count(ls, "end") = 1
               /\ Last(ls) = "end"
    /\ (call.op = "SubLabel::finish" /\ ~call.log.raw) =>
            /\ Unwrap(out) = RenderSub(call.parent, call.log)
            /\ Last(SplitLines(Unwrap(out), "")) # "end"

\* a Label with own lines and two sub-labels, the first holding a line, was
\* finished
C21_Witness ==
    /\ call.op = "Label::finish" /\ ~call.log.raw
    /\ Len(call.log.lines) >= 1
    /\ Len(call.log.subs) = 2
    /\ Len(call.log.subs[1].lines) >= 1

----------------------------------------------------------------------------
(* The lines of a Label or SubLabel under construction.                    *)

\* every line of the text after its first starts with the four spaces
IndentedAfterFirst(text) ==
    LET ls == SplitLines(text, "")
    IN \A k \in 2 .. Len(ls) : StartsWith(ls[k], "    ")

----------------------------------------------------------------------------
(* Where the line of an emission call on a Label Builder goes.             *)

\* the last call was an emission function
IsEmission == call.op \in {c.op : c \in BuilderCalls}

\* C23: after an emission call on a Label Builder that has opened sub-labels,
\* the label's own buffer is its name line and all its own lines in call
\* order, the new one last; no sub-label, finished or pending, has taken the
\* line; and the label's text has the own lines before every sub-label block
C23_LabelLineGoesToOwnBody ==
    (AtLabel /\ IsEmission /\ LoggedLabel(Top.inner).subs # <<>>) =>
        LET lb == LabelAt(Top.inner)
            lg == LoggedLabel(Top.inner)
            n == Len(lb.lbl.sub_labels)
        IN /\ lb.lbl.inner.buf = ("func " \o lg.name) \o RenderLines(lg.lines)
           /\ \A j \in 1 .. n : lb.lbl.sub_labels[j].inner.buf = RenderSub(lg.name, lg.subs[j])
           /\ IsSome(lb.unfinished) =>
                    /\ n = Len(lg.subs) - 1
                    /\ Unwrap(lb.unfinished).lbl.inner.buf = RenderSub(lg.name, Last(lg.subs))
           /\ lb.unfinished = None => n = Len(lg.subs)
           /\ Label_finish(LabelBuilder_finish(lb)) = RenderLabel(lg.name, lg)

\* a second own line was written to a label whose sub-label, holding a line,
\* is still pending
C23_Witness ==
    /\ AtLabel /\ IsEmission
    /\ IsSome(LabelAt(Top.inner).unfinished)
    /\ Len(LoggedLabel(Top.inner).lines) = 2
    /\ Len(LoggedLabel(Top.inner).subs) = 1
    /\ Len(Last(LoggedLabel(Top.inner).subs).lines) = 1

----------------------------------------------------------------------------
(* A session that never builds the entry point.                            *)

\* C24: finishing a Module Builder whose entry point was never built does not
\* panic, and the final text ends, after the labels and a blank line, with
\* the entry block made of the line func main and the terminator line only
C24_FinishWithoutEntryBuild ==
    (log.entry_builds = 0 /\ call.op \in {"finish", "asm_finish"}) =>
        /\ status \in {"finished", "done"} /\ panic_msg = ""
        /\ ~builder.built_main
        /\ Unwrap(asm_out).main = Label_new("main")
        /\ status = "done" =>
                Unwrap(out) = AbsorbedLabels(Len(log.labels)) \o "\n\nfunc main\nend"

\* a session that built a label with a line and a sub-label but never the
\* entry point ran to its final text
C24_Witness ==
    /\ status = "done" /\ log.entry_builds = 0
    /\ Len(log.labels) >= 1
    /\ Len(log.labels[1].lines) >= 1
    /\ Len(log.labels[1].subs) >= 1

----------------------------------------------------------------------------
(* What an emission call leaves alone.                                     *)

\* b extends a by a non-empty suffix
GrowsBySuffix(a, b) == Len(b) > Len(a) /\ SubSeq(b, 1, Len(a)) = a

\* C25: a step that writes a line to the entry label, to a label or to a
\* sub-label leaves the module buffer, the built-main flag, every other
\* builder, the parent's own lines and the finished and pending siblings as
\* they were; the buffer of the builder written to grows by a suffix
C25_WritingLinesFrame ==
    [][(call'.op \in {c.op : c \in BuilderCalls} /\ log' # log) =>
        /\ stack' = stack /\ status' = status
        /\ builder'.asm = builder.asm
        /\ builder'.built_main = builder.built_main
        /\ Len(stack) = 1 =>
                /\ (LabelAt(Top.inner))'.lbl.sub_labels = LabelAt(Top.inner).lbl.sub_labels
                /\ (LabelAt(Top.inner))'.unfinished = LabelAt(Top.inner).unfinished
                /\ (LabelAt(Top.inner))'.lbl.inner.name_span = LabelAt(Top.inner).lbl.inner.name_span
                /\ GrowsBySuffix(LabelAt(Top.inner).lbl.inner.buf,
                                 (LabelAt(Top.inner))'.lbl.inner.buf)
                /\ Top.inner = "main" =>
                        builder'.unfinished = builder.unfinished /\ label_local' = label_local
                /\ Top.inner # "main" => builder'.main = builder.main
                /\ sub_local' = sub_local
        /\ Len(stack) = 2 =>
                /\ (LabelAt(stack[1].inner))'.lbl = LabelAt(stack[1].inner).lbl
                /\ SubAt'.lbl.inner.name_span = SubAt.lbl.inner.name_span
                /\ GrowsBySuffix(SubAt.lbl.inner.buf, SubAt'.lbl.inner.buf)
                /\ stack[1].inner = "main" =>
                        builder'.unfinished = builder.unfinished /\ label_local' = label_local
                /\ stack[1].inner # "main" => builder'.main = builder.main
      ]_vars

\* a line was written to a pending sub-label of the entry label, which holds
\* an own line and a finished sub-label, after a label was absorbed
C25_Witness ==
    /\ AtSub /\ IsEmission
    /\ stack[1].inner = "main" /\ builder.built_main
    /\ Len(builder.main.lbl.sub_labels) = 1
    /\ Len(log.main.lines) >= 1
    /\ Len(Last(log.main.subs).lines) >= 1
    /\ builder.asm.buf # ENTRY_POINT

====
